---- MODULE Spec2Model ----
(***************************************************************************)
(* The GOAP planner of ai-service (goap.py): Action.is_valid, Action.apply *)
(* and GOAPPlanner.plan / validate_plan / clear_cache, with the operators  *)
(* of the tests and of planning/action_registry.py.                        *)
(*                                                                         *)
(* Python values.  A state, a precondition map, an effect map and a goal   *)
(* are Python dicts from fact keys to bool or number.  A dict is modelled  *)
(* as a total function over Keys whose value is NoneVal for a key the dict *)
(* does not hold (dict.get(key) is None).  Numbers are fixed point, in     *)
(* units of 1/One, so that 0.05, 0.2, 0.3 are integers.  A Python bool is  *)
(* an int (isinstance(True, (int, float)) holds, True == 1, True + True is *)
(* the int 2); the tag t keeps apart what Python keeps apart (the type),   *)
(* and n is what Python compares and adds.                                 *)
(***************************************************************************)
EXTENDS Integers, Sequences, FiniteSets, TLC

\* The number 1 (and True) in fixed-point units: 0.05 is One \div 20.
One == 100

\* ---- bounds of the model (not program constants) ----
\* largest max_depth a planner is constructed with
MaxDepth == 3
\* number of plan() calls made on one planner
MaxCalls == 2
\* longest hand-written plan given to validate_plan
MaxPlanLen == 2

\* max_depth of the planners of test_goap_basic.py
TestMaxDepth == 5

Keys ==
  {"near_tree", "has_wood", "has_plank", "at_forest", "in_combat", "evaded",
   "gold", "energy", "has_bread", "has_item", "near_item", "inventory_space",
   "hunger", "has_axe", "has_food", "has_sword", "pos_x", "pos_y", "health",
   "skill_gathering", "skill_crafting", "skill_trading", "near_bush_1",
   "near_bush_2", "has_bush_berry", "has_tree_apple", "has_mushroom_red",
   "has_mushroom_brown", "has_meat_cooked", "has_pickaxe", "has_stone",
   "has_ore"}

NoneVal == [t |-> "none", n |-> 0]
PyBool(b) == [t |-> "bool", n |-> IF b THEN One ELSE 0]
\* a number given in fixed-point units
PyNum(n) == [t |-> "num", n |-> n]
\* a whole number
PyInt(i) == [t |-> "num", n |-> i * One]

\* dict literal: the keys of record r, every other key absent
Dict(r) == [k \in Keys |-> IF k \in DOMAIN r THEN r[k] ELSE NoneVal]
EmptyDict == [k \in Keys |-> NoneVal]

\* key in d
Has(d, k) == d[k].t # "none"
\* d.keys()
KeysOf(d) == {k \in Keys : Has(d, k)}
\* isinstance(v, (int, float)): bool is a subclass of int
IsNumeric(v) == v.t \in {"bool", "num"}
\* Python v == w on None, bool and numbers (True == 1, False == 0)
PyEq(v, w) ==
  IF IsNumeric(v) /\ IsNumeric(w) THEN v.n = w.n
  ELSE v.t = w.t
\* tuple(sorted(d.items())) as a dict key: tuples are equal when their items are
\* ==, so (k, True) and (k, 1) are the same key
ItemsKey(d) == [k \in Keys |-> IF Has(d, k) THEN <<d[k].n>> ELSE <<>>]

\* Action.__init__; cost is a fixed-point float
Action(name, preconditions, effects, cost) ==
  [name |-> name, preconditions |-> preconditions, effects |-> effects,
   cost |-> cost]

\* Action.is_valid
is_valid(a, state) ==
  \A key \in KeysOf(a.preconditions) :
    LET value == a.preconditions[key]
        state_value == state[key]
    IN IF IsNumeric(value) /\ IsNumeric(state_value)
       THEN ~(state_value.n < value.n)
       ELSE PyEq(state_value, value)

\* the value apply stores for one effect key
EffectValue(state, key, value) ==
  IF IsNumeric(value) /\ Has(state, key)
  THEN PyNum(state[key].n + value.n)
  ELSE value

\* Action.apply: the returned dict
apply(a, state) ==
  [key \in Keys |->
     IF Has(a.effects, key) THEN EffectValue(state, key, a.effects[key])
     ELSE state[key]]

\* apply without the copy: the effects land in the caller's dict
InputAfterApplyNoCopy(a, state) == apply(a, state)
\* Action.apply works on state.copy(): the caller's dict after the call
InputAfterApply(a, state) == state

\* one pass of the for loop of _check_goal: the pass does not return False
GoalKeyMet(state, goal, key) ==
  LET target_value == goal[key]
      current_value == state[key]
  IN \/ /\ IsNumeric(target_value) /\ IsNumeric(current_value)
        /\ \/ target_value.n = 0 /\ current_value.n <= One \div 20
           \/ target_value.n > 0 /\ current_value.n >= target_value.n
     \/ PyEq(current_value, target_value)

\* the tolerance of a zero target read as a strict bound
HeuristicKeyUnmetStrict(state, goal, key) ==
  LET target_value == goal[key]
      current_value == state[key]
      continues ==
        /\ IsNumeric(target_value) /\ IsNumeric(current_value)
        /\ \/ target_value.n = 0 /\ current_value.n < One \div 20
           \/ target_value.n > 0 /\ current_value.n >= target_value.n
  IN ~continues /\ ~PyEq(current_value, target_value)
\* one pass of the for loop of _heuristic: the pass reaches unmet += 1
HeuristicKeyUnmet(state, goal, key) ==
  LET target_value == goal[key]
      current_value == state[key]
      continues ==
        /\ IsNumeric(target_value) /\ IsNumeric(current_value)
        /\ \/ target_value.n = 0 /\ current_value.n <= One \div 20
           \/ target_value.n > 0 /\ current_value.n >= target_value.n
  IN ~continues /\ ~PyEq(current_value, target_value)

\* GOAPPlanner._heuristic, as a fixed-point float
heuristic(state, goal) ==
  Cardinality({key \in KeysOf(goal) : HeuristicKeyUnmet(state, goal, key)}) * One

\* GOAPPlanner._check_goal
check_goal(state, goal) ==
  \A key \in KeysOf(goal) : GoalKeyMet(state, goal, key)

\* ---- the operators the planners are constructed with ----
T == PyBool(TRUE)
F == PyBool(FALSE)

\* test_goap_basic.py
get_wood ==
  Action("get_wood", Dict([near_tree |-> T]), Dict([has_wood |-> T]), One)
craft_plank ==
  Action("craft_plank", Dict([has_wood |-> T]), Dict([has_plank |-> T]), One)
\* test_ai.py
move_to_forest ==
  Action("move_to_forest", Dict([at_forest |-> F]), Dict([at_forest |-> T]), One)
chop_wood ==
  Action("chop_wood", Dict([at_forest |-> T]), Dict([has_wood |-> T]), 2 * One)
\* action_registry.py, combat
flee ==
  Action("flee", Dict([in_combat |-> T]), Dict([in_combat |-> F]), One)
dodge ==
  Action("dodge", Dict([energy |-> PyNum(One \div 10), in_combat |-> T]),
         Dict([energy |-> PyNum(-(One \div 20)), evaded |-> T]),
         (8 * One) \div 10)
\* action_registry.py, item management: a consume / re-add pair
pickup ==
  Action("pickup", Dict([near_item |-> T, inventory_space |-> T]),
         Dict([has_item |-> PyInt(1)]), One \div 2)
drop ==
  Action("drop", Dict([has_item |-> T]), Dict([has_item |-> PyInt(-1)]),
         (3 * One) \div 10)
\* action_registry.py, expand_actions: always applicable, accumulates gold
work_labor ==
  Action("work_labor", EmptyDict,
         Dict([gold |-> PyInt(5), energy |-> PyNum(-(One \div 5))]), 5 * One)
\* a buy that does not ask for the gold
buy_bread_unchecked(price) ==
  Action("buy_bread", EmptyDict,
         Dict([has_bread |-> PyInt(1), gold |-> PyInt(-price)]), One)
\* action_registry.py, expand_actions, for market_prices = {"bread": price}
buy_bread(price) ==
  Action("buy_bread", Dict([gold |-> PyInt(price)]),
         Dict([has_bread |-> PyInt(1), gold |-> PyInt(-price)]), One)
\* action_registry.py, expand_actions: the eat operator of the food "bread"
eat_bread ==
  Action("eat_bread", Dict([has_bread |-> T]),
         Dict([hunger |-> PyNum(-((3 * One) \div 10))]), One \div 2)
\* the market price of bread in the world snapshot of test_integration_e2e.py
BreadPrice == 5

\* ---- the inputs: operator lists, start states and goals, by domain ----
Perms(S) ==
  {p \in [1..Cardinality(S) -> S] : \A i, j \in DOMAIN p : p[i] = p[j] => i = j}
\* every list of distinct operators of S, in every order
Lists(S) == UNION {Perms(X) : X \in SUBSET S}

Worlds ==
  { [ops |-> {get_wood, craft_plank},
     starts |-> {Dict([near_tree |-> a, has_wood |-> b, has_plank |-> c]) :
                   a \in {F, T}, b \in {NoneVal, F, T}, c \in {NoneVal, F}},
     goals |-> {Dict([has_plank |-> T]), Dict([has_wood |-> T]),
                Dict([has_wood |-> T, has_plank |-> T])}],
    [ops |-> {move_to_forest, chop_wood},
     starts |-> {Dict([at_forest |-> a, has_wood |-> b]) :
                   a \in {NoneVal, F, T}, b \in {F, T}},
     goals |-> {Dict([has_wood |-> T]), Dict([at_forest |-> F]),
                Dict([at_forest |-> T, has_wood |-> T])}],
    [ops |-> {flee, dodge},
     starts |-> {Dict([in_combat |-> a, energy |-> PyNum(e)]) :
                   a \in {NoneVal, F, T}, e \in {One, One \div 10}},
     goals |-> {Dict([in_combat |-> F]), Dict([evaded |-> T])}],
    [ops |-> {pickup, drop},
     starts |-> {Dict([near_item |-> a, inventory_space |-> T, has_item |-> b]) :
                   a \in {F, T}, b \in {NoneVal, PyInt(0), PyInt(1)}},
     goals |-> {Dict([has_item |-> PyInt(2)]), Dict([has_item |-> PyInt(0)])}],
    [ops |-> {work_labor, buy_bread(BreadPrice)},
     starts |-> {Dict([gold |-> g, energy |-> PyNum(One), has_bread |-> b]) :
                   g \in {NoneVal, PyInt(0), PyInt(5), PyInt(10)},
                   b \in {NoneVal, PyInt(0)}},
     goals |-> {Dict([has_bread |-> T]), Dict([gold |-> PyInt(10)])}],
    [ops |-> {eat_bread},
     starts |-> {Dict([hunger |-> PyNum(h), has_bread |-> PyInt(1)]) :
                   h \in {One \div 20, (3 * One) \div 10, (35 * One) \div 100,
                          (4 * One) \div 10}},
     goals |-> {Dict([hunger |-> PyInt(0)])}] }

\* the max_depth values planners are constructed with
Depths == (0..MaxDepth) \cup {TestMaxDepth}

\* ---- GOAPPlanner ----
VARIABLES
  actions,      \* self.actions: the operator list
  max_depth,    \* self.max_depth
  plan_cache,   \* self.plan_cache: a set of [key, plan]
  start_state,  \* the caller's start_state dict
  goal_state,   \* the caller's goal_state dict
  pc,           \* "idle", "search" (inside plan's while loop), "returned", "error"
  queue,        \* plan's heap, as the set of its entries
  visited,      \* plan's visited set
  count,        \* plan's tie-break counter
  result,       \* the list the last plan() call returned
  calls,        \* plan() calls begun on this planner
  expanded,     \* nodes expanded (loop bodies that reached line 98) in this call
  found,        \* the last plan() call returned at line 88 or from the cache
  prev,         \* of the plan() call before the last one: <<result, found, whether
                \* clear_cache ran between that call and the last one>>, or <<>>
  cleared,      \* clear_cache ran after the last plan() call returned
  validated     \* of the validate_plan call made since the last plan() call began:
                \* <<plan, value returned, the start_state dict before the call>>,
                \* or <<>>

\* ---- EconomicPlanner.get_acquisition_plan(item, npc_state, world_state) ----
VARIABLES
  npc_state,    \* the npc_state argument
  world_state,  \* the world_state argument
  acquisition   \* the outcome of the call: what it returned or that it raised

plannerVars ==
  <<actions, max_depth, plan_cache, start_state, goal_state, pc, queue, visited,
    count, result, calls, expanded, found, prev, cleared, validated>>
econVars == <<npc_state, world_state, acquisition>>

\* ---- GoalManager (planning/goal_manager.py) ----
VARIABLES
  goals,         \* self.goals: npc_id -> list of Goal
  active_goals,  \* self.active_goals: npc_id -> goal_id
  next_goal      \* of the get_next_goal call made last, nothing having changed
                 \* since: <<npc_id, what it returned, self.goals before the
                 \* call>>, or <<>>

goalVars == <<goals, active_goals, next_goal>>

\* ---- the service: the registry singleton and plan_action_enhanced ----
VARIABLES
  registry,  \* ActionRegistry._actions: operator name -> the cost its Action holds
  served,    \* requests received so far
  metrics,   \* PlanningDebugger.metrics: total_plans, successful_plans,
             \* failed_plans
  workers    \* per worker thread: where it is in plan_action_enhanced ("idle",
             \* "costs": before reading a cost, "write": before storing it,
             \* "plan": after the cost loop, "done": returned), the request, the
             \* index into static_actions, the cost read, the response

serverVars == <<registry, served, metrics, workers>>
vars == <<plannerVars, econVars, goalVars, serverVars>>

\* no service is running
NoServer == registry = <<>> /\ served = 0 /\ metrics = <<>> /\ workers = <<>>

\* no GoalManager is constructed
NoGoalManager == goals = <<>> /\ active_goals = <<>> /\ next_goal = <<>>

\* no EconomicPlanner call is made
NoEconomicPlanner == npc_state = <<>> /\ world_state = <<>> /\ acquisition = <<>>

\* cache_key of plan (lines 66-69)
CacheKey(start, goal) == <<ItemsKey(start), ItemsKey(goal)>>
\* cache_key in self.plan_cache
InCache(cache, key) == \E c \in cache : c.key = key
\* self.plan_cache[cache_key]
CacheGet(cache, key) == (CHOOSE c \in cache : c.key = key).plan
\* a plan() that forgets to store
CachePutNothing(cache, key, plan) == cache
\* self.plan_cache[cache_key] = plan
CachePut(cache, key, plan) ==
  {c \in cache : c.key # key} \cup {[key |-> key, plan |-> plan]}

\* a heap entry (f_cost, g_cost, depth, count, state, plan)
Entry(f, g, depth, cnt, state, plan) ==
  [f_cost |-> f, g_cost |-> g, depth |-> depth, count |-> cnt, state |-> state,
   plan |-> plan]

\* a max-heap: the comparison the wrong way round
TupleGreater(x, y) ==
  \/ x.f_cost > y.f_cost
  \/ x.f_cost = y.f_cost /\ x.g_cost > y.g_cost
  \/ x.f_cost = y.f_cost /\ x.g_cost = y.g_cost /\ x.depth > y.depth
  \/ /\ x.f_cost = y.f_cost /\ x.g_cost = y.g_cost /\ x.depth = y.depth
     /\ x.count > y.count
\* tuple comparison x < y on the first four components
TupleLess(x, y) ==
  \/ x.f_cost < y.f_cost
  \/ x.f_cost = y.f_cost /\ x.g_cost < y.g_cost
  \/ x.f_cost = y.f_cost /\ x.g_cost = y.g_cost /\ x.depth < y.depth
  \/ /\ x.f_cost = y.f_cost /\ x.g_cost = y.g_cost /\ x.depth = y.depth
     /\ x.count < y.count
\* two entries equal on the first four components: comparing them goes on to
\* compare the state dicts, which raises TypeError
TupleTie(x, y) ==
  /\ x.f_cost = y.f_cost /\ x.g_cost = y.g_cost /\ x.depth = y.depth
  /\ x.count = y.count
HeapRaises(q) == \E x, y \in q : x # y /\ TupleTie(x, y)
\* heapq.heappop: the smallest entry
HeapMin(q) == CHOOSE x \in q : \A y \in q : y = x \/ TupleLess(x, y)
\* a pop that reads the top and leaves it in the heap
HeapRestKeep(q, x) == q
\* heapq.heappop: the heap without the popped entry
HeapRest(q, x) == q \ {x}

\* the depth check off by one
DepthLimitOffByOne(depth, limit) == depth > limit
\* depth >= self.max_depth (line 91)
DepthLimit(depth, limit) == depth >= limit
\* the new name put in front
NewPlanPrepend(plan, name) == <<name>> \o plan
\* plan + [action.name] (line 107)
NewPlan(plan, name) == Append(plan, name)
\* the depth never counted up
NewDepthStuck(depth) == depth
\* depth + 1 (line 108)
NewDepth(depth) == depth + 1

\* the for loop of lines 101-111 of a planner whose self.actions is acts, called
\* with goal_state goal, from acts[i] on, for the popped entry e whose state dict
\* is now cur: the entries pushed and the counter afterwards
\* a visited check that lets every state through
InVisitedNever(state_key, seen) == FALSE
\* the visited check: state_key in visited
InVisited(state_key, seen) == state_key \in seen

RECURSIVE ExpandOver(_, _, _, _, _, _)
ExpandOver(acts, goal, i, cur, e, cnt) ==
  IF i > Len(acts) THEN [pushed |-> {}, count |-> cnt]
  ELSE
    LET action == acts[i] IN
    IF is_valid(action, cur)
    THEN LET new_state == apply(action, cur)
             new_g_cost == e.g_cost + action.cost
             new_h_cost == heuristic(new_state, goal)
             node == Entry(new_g_cost + new_h_cost, new_g_cost, NewDepth(e.depth),
                           cnt + 1, new_state, NewPlan(e.plan, action.name))
             rest == ExpandOver(acts, goal, i + 1, InputAfterApply(action, cur), e,
                                cnt + 1)
         IN [pushed |-> {node} \cup rest.pushed, count |-> rest.count]
    ELSE ExpandOver(acts, goal, i + 1, cur, e, cnt)
\* the same for loop on the planner of the variables
ExpandFrom(i, cur, e, cnt) == ExpandOver(actions, goal_state, i, cur, e, cnt)

\* next((a for a in acts if a.name == action_name), None) is not None
HasIn(acts, action_name) == \E i \in DOMAIN acts : acts[i].name = action_name
\* next((a for a in acts if a.name == action_name), None): the first match
FindIn(acts, action_name) ==
  acts[CHOOSE i \in DOMAIN acts :
         /\ acts[i].name = action_name
         /\ \A j \in 1..(i - 1) : acts[j].name # action_name]
HasAction(action_name) == HasIn(actions, action_name)
FindAction(action_name) == FindIn(actions, action_name)

\* the for loop of validate_plan from plan[i] on (lines 167-181), on a planner
\* whose self.actions is acts
RECURSIVE ValidateOver(_, _, _, _, _)
ValidateOver(acts, plan, i, current_state, goal) ==
  IF i > Len(plan) THEN check_goal(current_state, goal)
  ELSE IF ~HasIn(acts, plan[i]) THEN FALSE
  ELSE LET action == FindIn(acts, plan[i]) IN
       IF ~is_valid(action, current_state) THEN FALSE
       ELSE ValidateOver(acts, plan, i + 1, apply(action, current_state), goal)
ValidateFrom(plan, i, current_state, goal) ==
  ValidateOver(actions, plan, i, current_state, goal)

\* GOAPPlanner.get_plan_cost on a planner whose self.actions is acts
RECURSIVE get_plan_cost(_, _)
get_plan_cost(acts, plan) ==
  IF plan = <<>> THEN 0
  ELSE (IF HasIn(acts, Head(plan)) THEN FindIn(acts, Head(plan)).cost ELSE 0)
       + get_plan_cost(acts, Tail(plan))

\* plan()'s while loop (lines 82-114) run to its end from heap q, visited set
\* seen and counter cnt, on a planner whose self.actions is acts and whose
\* max_depth is limit: the list returned and whether it was returned at the
\* goal check (found), or that the heap raised
RECURSIVE SearchOver(_, _, _, _, _, _)
SearchOver(acts, goal, limit, q, seen, cnt) ==
  IF q = {} THEN [status |-> "returned", plan |-> <<>>, found |-> FALSE]
  ELSE IF HeapRaises(q) THEN [status |-> "raised", plan |-> <<>>, found |-> FALSE]
  ELSE LET e == HeapMin(q)
           rest == HeapRest(q, e)
           state_key == ItemsKey(e.state)
       IN IF check_goal(e.state, goal)
          THEN [status |-> "returned", plan |-> e.plan, found |-> TRUE]
          ELSE IF DepthLimit(e.depth, limit) \/ InVisited(state_key, seen)
          THEN SearchOver(acts, goal, limit, rest, seen, cnt)
          ELSE LET x == ExpandOver(acts, goal, 1, e.state, e, cnt) IN
               SearchOver(acts, goal, limit, rest \cup x.pushed,
                          seen \cup {state_key}, x.count)
\* GOAPPlanner(acts, max_depth=limit).plan(start, goal) on an empty cache
plan_of(acts, limit, start, goal) ==
  SearchOver(acts, goal, limit,
             {Entry(heuristic(start, goal), 0, 0, 0, start, <<>>)}, {}, 0)

\* unknown names skipped, as get_plan_cost skips them
validate_plan_skipping(plan, start, goal) ==
  ValidateFrom(SelectSeq(plan, HasAction), 1, start, goal)
\* GOAPPlanner.validate_plan: the value returned
validate_plan(plan, start, goal) == ValidateFrom(plan, 1, start, goal)
\* validate_plan works on start_state.copy(): the caller's dict after the call
StartAfterValidate(plan, start, goal) == start

\* the action names a caller writes into a plan by hand: the planner's own and
\* one no operator has
UnknownName == "fly"
HandNames == {actions[i].name : i \in DOMAIN actions} \cup {UnknownName}
HandPlans == UNION {[1..n -> HandNames] : n \in 0..MaxPlanLen}

Init ==
  /\ \E w \in Worlds :
       /\ actions \in Lists(w.ops)
       /\ start_state \in w.starts
       /\ goal_state \in w.goals
  /\ max_depth \in Depths
  /\ plan_cache = {}
  /\ pc = "idle"
  /\ queue = {}
  /\ visited = {}
  /\ count = 0
  /\ result = <<>>
  /\ calls = 0
  /\ expanded = 0
  /\ found = FALSE
  /\ prev = <<>>
  /\ cleared = FALSE
  /\ validated = <<>>
  /\ NoEconomicPlanner
  /\ NoGoalManager
  /\ NoServer

\* plan(start_state, goal_state), lines 65-80: the cache lookup and, on a miss,
\* the first heap entry
PlanBegin ==
  /\ pc \in {"idle", "returned"}
  /\ calls < MaxCalls
  /\ calls' = calls + 1
  /\ prev' = IF calls > 0 THEN <<result, found, cleared>> ELSE prev
  /\ cleared' = FALSE
  /\ expanded' = 0
  /\ LET cache_key == CacheKey(start_state, goal_state) IN
     IF InCache(plan_cache, cache_key)
     THEN /\ result' = CacheGet(plan_cache, cache_key)
          /\ found' = TRUE
          /\ pc' = "returned"
          /\ UNCHANGED <<queue, visited, count>>
     ELSE /\ queue' = {Entry(heuristic(start_state, goal_state), 0, 0, 0,
                             start_state, <<>>)}
          /\ visited' = {}
          /\ count' = 0
          /\ pc' = "search"
          /\ UNCHANGED <<result, found>>
  /\ validated' = <<>>
  /\ UNCHANGED <<actions, max_depth, plan_cache, start_state, goal_state>>
  /\ UNCHANGED <<econVars, goalVars, serverVars>>

\* one pass of the while loop, lines 82-111
LoopIter ==
  /\ pc = "search"
  /\ queue # {}
  /\ IF HeapRaises(queue)
     THEN /\ pc' = "error"
          /\ UNCHANGED <<queue, visited, count, result, found, plan_cache, expanded>>
     ELSE
       LET e == HeapMin(queue)
           rest == HeapRest(queue, e)
           state_key == ItemsKey(e.state)
       IN IF check_goal(e.state, goal_state)
          THEN /\ plan_cache' = CachePut(plan_cache,
                                        CacheKey(start_state, goal_state), e.plan)
               /\ result' = e.plan
               /\ found' = TRUE
               /\ pc' = "returned"
               /\ queue' = rest
               /\ UNCHANGED <<visited, count, expanded>>
          ELSE IF DepthLimit(e.depth, max_depth) \/ InVisited(state_key, visited)
          THEN /\ queue' = rest
               /\ UNCHANGED <<pc, visited, count, result, found, plan_cache, expanded>>
          ELSE LET x == ExpandFrom(1, e.state, e, count) IN
               /\ visited' = visited \cup {state_key}
               /\ queue' = rest \cup x.pushed
               /\ count' = x.count
               /\ expanded' = expanded + 1
               /\ UNCHANGED <<pc, result, found, plan_cache>>
  /\ UNCHANGED <<actions, max_depth, start_state, goal_state, calls, prev, cleared,
                 validated>>
  /\ UNCHANGED <<econVars, goalVars, serverVars>>

\* the while loop ends on an empty heap: return [] (line 114)
PlanFail ==
  /\ pc = "search"
  /\ queue = {}
  /\ result' = <<>>
  /\ found' = FALSE
  /\ pc' = "returned"
  /\ UNCHANGED <<actions, max_depth, plan_cache, start_state, goal_state, queue,
                 visited, count, calls, expanded, prev, cleared, validated>>
  /\ UNCHANGED <<econVars, goalVars, serverVars>>

\* clear_cache
clear_cache ==
  /\ pc = "returned"
  /\ plan_cache # {}
  /\ plan_cache' = {}
  /\ cleared' = TRUE
  /\ UNCHANGED <<actions, max_depth, start_state, goal_state, pc, queue, visited,
                 count, result, calls, expanded, found, prev, validated>>
  /\ UNCHANGED <<econVars, goalVars, serverVars>>

\* validate_plan(plan, start_state, goal_state) on a hand-written plan (as in
\* test_plan_validation) or on the plan just returned (main.py line 371)
ValidateCall ==
  /\ pc \in {"idle", "returned"}
  /\ \E plan \in IF pc = "returned" THEN {result} ELSE HandPlans :
       /\ validated' = <<plan, validate_plan(plan, start_state, goal_state),
                         start_state>>
       /\ start_state' = StartAfterValidate(plan, start_state, goal_state)
  /\ UNCHANGED <<actions, max_depth, plan_cache, goal_state, pc, queue, visited,
                 count, result, calls, expanded, found, prev, cleared>>
  /\ UNCHANGED <<econVars, goalVars, serverVars>>

Next == PlanBegin \/ LoopIter \/ PlanFail \/ clear_cache \/ ValidateCall

Spec == Init /\ [][Next]_vars

\* plan() is one synchronous call: once inside the while loop, the loop goes on
\* until it returns
FairSpec == Spec /\ WF_vars(LoopIter) /\ WF_vars(PlanFail)

\* ---- one planner called with several (start_state, goal_state) pairs ----
\* operators a caller builds: a dear direct way and a cheap roundabout way to
\* the same state, and a step to repeat from there
ride_to_forest ==
  Action("ride_to_forest", EmptyDict, Dict([at_forest |-> T, near_tree |-> T]),
         5 * One)
walk_to_tree == Action("walk_to_tree", EmptyDict, Dict([near_tree |-> T]), One)
enter_forest ==
  Action("enter_forest", Dict([near_tree |-> T]), Dict([at_forest |-> T]), One)
fell_tree ==
  Action("fell_tree", Dict([at_forest |-> T]), Dict([has_wood |-> PyInt(1)]), One)
\* operators cheaper than one unmet goal key counts in the heuristic
forage == Action("forage", EmptyDict, Dict([has_food |-> T]), (9 * One) \div 10)
open_pack == Action("open_pack", EmptyDict, Dict([has_item |-> T]), One \div 10)
unpack_food ==
  Action("unpack_food", Dict([has_item |-> T]), Dict([has_food |-> T]),
         One \div 10)
\* the operators and the arguments of the calls
CacheWorlds ==
  { [ops |-> {get_wood, craft_plank},
     starts |-> {Dict([near_tree |-> a, has_wood |-> b, has_plank |-> F]) :
                   a \in {F, T}, b \in {F, T}},
     goals |-> {Dict([has_plank |-> T]), Dict([has_wood |-> T])}],
    [ops |-> {work_labor, buy_bread(BreadPrice)},
     starts |-> {Dict([gold |-> PyInt(g), energy |-> PyNum(One)]) : g \in {0, 5}},
     goals |-> {Dict([has_bread |-> T]), Dict([gold |-> PyInt(10)])}],
    [ops |-> {ride_to_forest, walk_to_tree, enter_forest, fell_tree},
     starts |-> {EmptyDict},
     goals |-> {Dict([has_wood |-> PyInt(2)])}],
    [ops |-> {forage, open_pack, unpack_food},
     starts |-> {EmptyDict},
     goals |-> {Dict([has_food |-> T])}] }
\* the world a planner's operators are of
CacheWorld ==
  CHOOSE w \in CacheWorlds : {actions[i] : i \in DOMAIN actions} = w.ops

\* a new planner, no call made
CacheInit ==
  /\ \E w \in CacheWorlds : actions \in Perms(w.ops)
  /\ max_depth \in Depths
  /\ plan_cache = {}
  /\ start_state = EmptyDict /\ goal_state = EmptyDict
  /\ pc = "idle"
  /\ queue = {} /\ visited = {} /\ count = 0 /\ result = <<>> /\ calls = 0
  /\ expanded = 0 /\ found = FALSE /\ prev = <<>> /\ cleared = FALSE
  /\ validated = <<>>
  /\ NoEconomicPlanner
  /\ NoGoalManager
  /\ NoServer

\* a call that stores the plan whether or not the goal was reached
PlanCallStoring(start, goal) ==
  LET cache_key == CacheKey(start, goal)
      searched == plan_of(actions, max_depth, start, goal)
  IN /\ start_state' = start /\ goal_state' = goal
     /\ IF InCache(plan_cache, cache_key)
        THEN /\ result' = CacheGet(plan_cache, cache_key)
             /\ found' = TRUE /\ pc' = "returned"
             /\ UNCHANGED plan_cache
        ELSE /\ plan_cache' = CachePut(plan_cache, cache_key, searched.plan)
             /\ result' = searched.plan
             /\ found' = searched.found /\ pc' = "returned"

\* plan(start, goal) from call to return (lines 65-114): the cached list, or
\* the search, which stores the list it returns at the goal check
PlanCall(start, goal) ==
  LET cache_key == CacheKey(start, goal)
      searched == plan_of(actions, max_depth, start, goal)
  IN /\ start_state' = start /\ goal_state' = goal
     /\ IF InCache(plan_cache, cache_key)
        THEN /\ result' = CacheGet(plan_cache, cache_key)
             /\ found' = TRUE /\ pc' = "returned"
             /\ UNCHANGED plan_cache
        ELSE IF searched.status = "raised"
        THEN /\ pc' = "error"
             /\ found' = FALSE
             /\ UNCHANGED <<result, plan_cache>>
        ELSE /\ plan_cache' = IF searched.found
                              THEN CachePut(plan_cache, cache_key, searched.plan)
                              ELSE plan_cache
             /\ result' = searched.plan
             /\ found' = searched.found /\ pc' = "returned"

\* one plan() call on the planner
Plan ==
  /\ calls < MaxCalls + 1
  /\ \E start \in CacheWorld.starts, goal \in CacheWorld.goals :
       PlanCall(start, goal)
  /\ calls' = calls + 1
  /\ cleared' = FALSE
  /\ UNCHANGED <<actions, max_depth, queue, visited, count, expanded, prev,
                 validated>>
  /\ UNCHANGED <<econVars, goalVars, serverVars>>

\* clear_cache between calls
ClearCache ==
  /\ calls > 0 /\ ~cleared
  /\ plan_cache' = {}
  /\ cleared' = TRUE
  /\ UNCHANGED <<actions, max_depth, start_state, goal_state, pc, queue, visited,
                 count, result, calls, expanded, found, prev, validated>>
  /\ UNCHANGED <<econVars, goalVars, serverVars>>

CacheNext == Plan \/ ClearCache

CacheSpec == CacheInit /\ [][CacheNext]_vars

\* ---- what the claims speak of ----
NamesOf(ops) == [i \in DOMAIN ops |-> ops[i].name]
DistinctNames ==
  \A i, j \in DOMAIN actions : actions[i].name = actions[j].name => i = j

\* the state after the first n steps of plan from start, each name resolved as
\* validate_plan resolves it (a name no operator has changes nothing)
RECURSIVE Replay(_, _, _)
Replay(plan, n, start) ==
  IF n = 0 THEN start
  ELSE LET s == Replay(plan, n - 1, start) IN
       IF HasAction(plan[n]) THEN apply(FindAction(plan[n]), s) ELSE s

\* the states some sequence of at most d valid operator applications leads to
RECURSIVE ReachWithin(_, _)
ReachWithin(S, d) ==
  IF d = 0 THEN S
  ELSE ReachWithin(
         S \cup {apply(actions[i], s) :
                   <<i, s>> \in {x \in (DOMAIN actions) \X S : is_valid(actions[x[1]], x[2])}},
         d - 1)
GoalReachable ==
  \E s \in ReachWithin({start_state}, max_depth) : check_goal(s, goal_state)

\* for a heap entry of depth >= 1: the operator applied last and the state it
\* was applied in
LastAction(e) == FindAction(e.plan[Len(e.plan)])
ParentState(e) == Replay(e.plan, Len(e.plan) - 1, start_state)

\* C1 (soundness): with pairwise distinct operator names, every non-empty plan
\* that plan() returns is accepted by validate_plan on the same planner, start
\* state and goal.
C1_Soundness ==
  (pc = "returned" /\ result # <<>> /\ DistinctNames)
    => validate_plan(result, start_state, goal_state)
C1_Witness ==
  /\ pc = "returned" /\ Len(result) >= 2 /\ DistinctNames
  /\ validated # <<>> /\ validated[1] = result /\ validated[2]

\* C2: when no sequence of at most max_depth valid operator applications leads
\* from the start state to a state satisfying the goal, plan() raises no error
\* and returns the empty list.
C2_UnreachableGivesEmpty ==
  (pc \in {"returned", "error"} /\ ~GoalReachable)
    => (pc = "returned" /\ result = <<>>)
C2_Witness ==
  /\ pc = "returned" /\ ~GoalReachable /\ result = <<>>
  /\ Len(actions) >= 1 /\ expanded >= 2

\* C3: no heap entry is deeper than max_depth or carries a plan longer than
\* max_depth, and the plan returned has at most max_depth steps.
C3_DepthBound ==
  /\ \A e \in queue : e.depth <= max_depth /\ Len(e.plan) <= max_depth
  /\ pc = "returned" => Len(result) <= max_depth
C3_Witness ==
  /\ pc = "returned" /\ max_depth >= 2 /\ Len(result) = max_depth
  /\ \E e \in queue : e.depth = max_depth

\* C4 (termination): every plan() call that enters its search loop returns, by
\* goal satisfaction or by frontier exhaustion, also with always-applicable
\* accumulating operators (work_labor) and consume / re-add pairs (pickup, drop).
C4_Terminates == (pc = "search") ~> (pc = "returned")
C4_Witness ==
  /\ pc = "returned" /\ ~found /\ expanded >= 3
  /\ \E i \in DOMAIN actions : actions[i] = work_labor

\* C5 (cache determinism): a second plan() call with the same arguments returns
\* the same list as the first; when the first found the goal and the cache was
\* not cleared in between, the second expands no node.
C5_CacheDeterminism ==
  (pc = "returned" /\ calls >= 2)
    => /\ result = prev[1]
       /\ (prev[2] /\ ~prev[3]) => expanded = 0
C5_Witness ==
  /\ pc = "returned" /\ calls = 2 /\ prev[2] /\ ~prev[3]
  /\ Len(result) >= 2 /\ result = prev[1] /\ expanded = 0

\* C6 (scenario E): from {near_tree: true, has_wood: false, has_plank: false},
\* with operators [get_wood, craft_plank], goal {has_plank: true} and a depth
\* bound of at least 2, plan() returns exactly [get_wood, craft_plank].
C6_ScenarioE ==
  ( /\ pc = "returned"
    /\ actions = <<get_wood, craft_plank>>
    /\ start_state = Dict([near_tree |-> T, has_wood |-> F, has_plank |-> F])
    /\ goal_state = Dict([has_plank |-> T])
    /\ max_depth >= 2 )
    => result = <<"get_wood", "craft_plank">>
C6_Witness ==
  /\ pc = "returned" /\ calls = 1 /\ found
  /\ actions = <<get_wood, craft_plank>>
  /\ start_state = Dict([near_tree |-> T, has_wood |-> F, has_plank |-> F])
  /\ goal_state = Dict([has_plank |-> T])
  /\ max_depth = TestMaxDepth
  /\ result = <<"get_wood", "craft_plank">>

\* C7: validate_plan returns true exactly when every name of the plan is the
\* name of an operator, each operator is valid in the state its predecessors
\* lead to from the start state, and the final state satisfies the goal (so
\* false for a plan with an unknown name); the start state is left as it was.
C7_ValidateExactly ==
  validated # <<>> =>
    LET plan == validated[1] IN
    /\ validated[2] =
         ( /\ \A i \in 1..Len(plan) :
                /\ HasAction(plan[i])
                /\ is_valid(FindAction(plan[i]), Replay(plan, i - 1, validated[3]))
           /\ check_goal(Replay(plan, Len(plan), validated[3]), goal_state) )
    /\ start_state = validated[3]
C7_Witness ==
  /\ validated # <<>> /\ ~validated[2]
  /\ \E i \in 1..Len(validated[1]) : validated[1][i] = UnknownName
  /\ validate_plan(SelectSeq(validated[1], HasAction), start_state, goal_state)

\* C8: a boolean precondition is satisfied only by a state that holds that
\* boolean for the key: every operator the search applied was applied in a
\* state whose value for each boolean precondition key equals the required
\* boolean.
C8_BoolPreconditionExact ==
  \A e \in queue :
    (e.depth >= 1 /\ DistinctNames) =>
      \A key \in KeysOf(LastAction(e).preconditions) :
        LastAction(e).preconditions[key].t = "bool"
          => PyEq(ParentState(e)[key], LastAction(e).preconditions[key])

\* C9: an effect that sets a boolean flag to false assigns it: after an operator
\* with effect {k: false} is applied in a state where k is present and true, k
\* is false and the goal {k: false} is satisfied.
C9_BoolEffectAssigns ==
  \A e \in queue :
    (e.depth >= 1 /\ DistinctNames) =>
      \A key \in KeysOf(LastAction(e).effects) :
        ( /\ LastAction(e).effects[key] = F
          /\ PyEq(ParentState(e)[key], T) )
          => /\ PyEq(e.state[key], F)
             /\ check_goal(e.state, [k \in Keys |-> IF k = key THEN F ELSE NoneVal])

\* C10: apply leaves its input dict as it was and changes only the keys of the
\* operator's effects: every heap entry holds the state its plan leads to from
\* the start state, and that state agrees with the state the last operator was
\* applied in on every key outside that operator's effects.
C10_ApplyFrame ==
  \A e \in queue :
    (e.depth >= 1 /\ DistinctNames) =>
      /\ e.state = Replay(e.plan, Len(e.plan), start_state)
      /\ \A key \in Keys \ KeysOf(LastAction(e).effects) :
           e.state[key] = ParentState(e)[key]
C10_Witness ==
  \E e1, e2 \in queue :
    /\ e1.depth >= 2 /\ e2.depth = e1.depth /\ e1.count + 1 = e2.count
    /\ \E key \in KeysOf(e1.state) \ KeysOf(LastAction(e1).effects) :
         e1.state[key] = ParentState(e1)[key]

\* C18: the synthesized buy operator of a priced market item is applicable
\* exactly when the state holds gold and the gold is at least the price;
\* applying it lowers gold by exactly the price, never below zero, and raises
\* has_<item> by 1, setting it to 1 when the state did not hold the key.
C18_BuySpendsPrice ==
  LET buy == buy_bread(BreadPrice) IN
  (DistinctNames /\ \E i \in DOMAIN actions : actions[i] = buy) =>
    \A e \in queue :
      /\ is_valid(buy, e.state) <=>
           (Has(e.state, "gold") /\ e.state["gold"].n >= BreadPrice * One)
      /\ (e.depth >= 1 /\ LastAction(e) = buy) =>
           /\ e.state["gold"] = PyNum(ParentState(e)["gold"].n - BreadPrice * One)
           /\ e.state["gold"].n >= 0
           /\ e.state["has_bread"] =
                IF Has(ParentState(e), "has_bread")
                THEN PyNum(ParentState(e)["has_bread"].n + One)
                ELSE PyInt(1)
C18_Witness ==
  /\ ~Has(start_state, "gold") /\ ~Has(start_state, "has_bread")
  /\ ~is_valid(buy_bread(BreadPrice), start_state)
  /\ \E e \in queue :
       /\ e.depth = 2 /\ LastAction(e) = buy_bread(BreadPrice)
       /\ e.state["gold"] = PyInt(0) /\ e.state["has_bread"] = PyInt(1)

\* every goal the planners are given
AllGoals == UNION {w.goals : w \in Worlds}

\* C11: _check_goal(state, goal) is true exactly when _heuristic(state, goal) is
\* 0, for every state the search holds and every goal; a goal key with numeric
\* target 0 is met when the state value is <= 0.05, one with a positive numeric
\* target when the state value is >= the target, and every other key by equality.
C11_CheckGoalIffHeuristicZero ==
  \A e \in queue : \A goal \in AllGoals :
    /\ check_goal(e.state, goal) <=> (heuristic(e.state, goal) = 0)
    /\ e.f_cost - e.g_cost = heuristic(e.state, goal_state)
    /\ \A key \in KeysOf(goal) :
         LET target_value == goal[key]
             current_value == e.state[key]
             numeric == IsNumeric(target_value) /\ IsNumeric(current_value)
         IN HeuristicKeyUnmet(e.state, goal, key) <=>
              ~( IF numeric /\ target_value.n = 0
                 THEN current_value.n <= One \div 20
                 ELSE IF numeric /\ target_value.n > 0
                 THEN current_value.n >= target_value.n
                 ELSE PyEq(current_value, target_value) )
C11_Witness ==
  \E e \in queue :
    /\ e.depth >= 1 /\ goal_state = Dict([hunger |-> PyInt(0)])
    /\ e.state["hunger"].n = One \div 20
    /\ check_goal(e.state, goal_state) /\ heuristic(e.state, goal_state) = 0
    /\ ~check_goal(start_state, goal_state) /\ heuristic(start_state, goal_state) = One

\* ---- EconomicPlanner (planning/economic_planner.py) ----
\* The floats of the evaluations are exact fractions num / den with den > 0.
Rat(n, d) == [num |-> n, den |-> d]
RatLess(x, y) == x.num * y.den < y.num * x.den
RatPlus(x, y) == Rat(x.num * y.den + y.num * x.den, x.den * y.den)
\* x / y for y > 0
RatDiv(x, y) == Rat(x.num * y.den, x.den * y.num)
\* Python min(x, y) and max(x, y): the first argument unless the second beats it
RatMin(x, y) == IF RatLess(y, x) THEN y ELSE x
RatMax(x, y) == IF RatLess(x, y) THEN y ELSE x

\* A dict with a known set of possible keys is a record over those keys whose
\* value is Absent for a key the dict does not hold (all values are >= 0).
Absent == -1
\* d.get(k, default)
Get(d, k, default) == IF d[k] = Absent THEN default ELSE d[k]

BASE_CRAFT_TIME == 10
BASE_WORK_TIME == 20
MIN_SKILL_FOR_QUALITY == 50

\* the item asked for (test_economic_planner.py, test_api_integration.py)
Item == "sword"

\* the inventory is a list: list has no attribute 'get' (line 210)
check_materials_raises(npc) == npc.inventory.shape = "list"
\* EconomicPlanner._check_materials on a dict inventory
check_materials(item, npc) ==
  Get(npc.inventory, "wood", 0) > 0 \/ Get(npc.inventory, "ore", 0) > 0
\* materials in the inventory are the only way to craft
can_gather_nothing(item, world) == FALSE
\* EconomicPlanner._can_gather_materials
can_gather_materials(item, world) == Len(world.resources) > 0
\* EconomicPlanner._check_market_availability: True on both paths
check_market_availability_by_orders(item, world) ==
  \/ \E order \in world.quest_board : order.type = "sell" /\ order.item = item
  \/ Get(world.market_prices, item, Absent) # Absent
check_market_availability(item, world) ==
  IF \E order \in world.quest_board : order.type = "sell" /\ order.item = item
  THEN TRUE ELSE TRUE
\* EconomicPlanner._get_best_profession: max over the items in dict order, the
\* first maximal one
get_best_profession(skills) ==
  LET order == <<"gathering", "crafting", "trading">>
      level(i) == Get(skills, order[i], 0)
      best == CHOOSE i \in 1..3 :
                /\ \A j \in 1..3 : level(j) <= level(i)
                /\ \A j \in 1..(i - 1) : level(j) < level(i)
  IN [profession |-> order[best], skill |-> level(best)]

\* a success probability that ignores the skill
success_prob_flat(crafting_skill) == Rat(3, 10)
\* min(0.95, 0.3 + (crafting_skill / 100) * 0.65) (line 46)
success_prob(crafting_skill) ==
  RatMin(Rat(95, 100), Rat(3000 + 65 * crafting_skill, 10000))

\* EconomicPlanner.evaluate_craft_path
evaluate_craft_path(item, npc, world) ==
  LET crafting_skill == Get(npc.skills, "crafting", 0)
      has_materials == check_materials(item, npc)
      expected_quality == RatMin(Rat(1, 1), Rat(crafting_skill, 100))
      skill_time == Rat(BASE_CRAFT_TIME * (200 - crafting_skill), 200)
      time_cost == IF has_materials THEN skill_time
                   ELSE RatPlus(skill_time, Rat(20, 1))
      risks ==
        (IF ~has_materials THEN <<"missing_materials">> ELSE <<>>)
        \o (IF crafting_skill < MIN_SKILL_FOR_QUALITY
            THEN <<"low_quality_risk">> ELSE <<>>)
        \o (IF RatLess(success_prob(crafting_skill), Rat(7, 10))
            THEN <<"high_failure_risk">> ELSE <<>>)
  IN [feasible |-> has_materials \/ can_gather_materials(item, world),
      time_cost |-> time_cost,
      success_probability |-> success_prob(crafting_skill),
      expected_quality |-> expected_quality,
      total_cost |-> RatPlus(time_cost, Rat(Len(risks) * 5, 1)),
      risks |-> risks]

\* EconomicPlanner.evaluate_work_and_buy_path
evaluate_work_and_buy_path(item, npc, world) ==
  LET item_price == Get(world.market_prices, item, 50)
      best == get_best_profession(npc.skills)
      gold_per_work == Rat(50 + best.skill, 10)
      current_gold == Get(npc.stats, "money", 0)
      gold_needed == IF item_price - current_gold > 0
                     THEN item_price - current_gold ELSE 0
      work_sessions == RatDiv(Rat(gold_needed, 1), gold_per_work)
      work_time == Rat(work_sessions.num * BASE_WORK_TIME, work_sessions.den)
      time_cost == RatPlus(work_time, Rat(5, 1))
  IN [feasible |-> check_market_availability(item, world),
      time_cost |-> time_cost,
      best_profession |-> best.profession,
      gold_needed |-> gold_needed,
      work_time |-> work_time,
      total_cost |-> time_cost,
      guaranteed_quality |-> TRUE]

\* risky only below one half
craft_risky_half(craft_eval) == RatLess(craft_eval.success_probability, Rat(1, 2))
\* craft_risky (line 166)
craft_risky(craft_eval) == RatLess(craft_eval.success_probability, Rat(7, 10))

\* EconomicPlanner.get_acquisition_plan, lines 159-203, on the two evaluations
decide(craft_eval, work_eval) ==
  LET craft_low_quality == RatLess(craft_eval.expected_quality, Rat(6, 10))
      time_ratio == RatDiv(work_eval.time_cost,
                           RatMax(craft_eval.time_cost, Rat(1, 1)))
  IN IF ~craft_eval.feasible THEN <<"work_and_buy", work_eval>>
     ELSE IF ~work_eval.feasible THEN <<"craft", craft_eval>>
     ELSE IF \/ RatLess(craft_eval.success_probability, Rat(1, 2))
             \/ RatLess(craft_eval.expected_quality, Rat(4, 10))
     THEN <<"work_and_buy", work_eval>>
     ELSE IF /\ craft_risky(craft_eval) \/ craft_low_quality
             /\ RatLess(time_ratio, Rat(3, 1))
     THEN <<"work_and_buy", work_eval>>
     ELSE IF /\ RatLess(Rat(8, 10), craft_eval.success_probability)
             /\ RatLess(Rat(7, 10), craft_eval.expected_quality)
             /\ RatLess(craft_eval.time_cost, work_eval.time_cost)
     THEN <<"craft", craft_eval>>
     ELSE IF craft_risky(craft_eval) THEN <<"work_and_buy", work_eval>>
     ELSE IF RatLess(craft_eval.total_cost, work_eval.total_cost)
     THEN <<"craft", craft_eval>>
     ELSE <<"work_and_buy", work_eval>>

\* EconomicPlanner.get_acquisition_plan: what the call returns, or that
\* evaluate_craft_path raised
get_acquisition_plan(item, npc, world) ==
  IF check_materials_raises(npc)
  THEN [status |-> "raised", error |-> "AttributeError", value |-> <<>>]
  ELSE [status |-> "returned", error |-> "",
        value |-> decide(evaluate_craft_path(item, npc, world),
                         evaluate_work_and_buy_path(item, npc, world))]

\* the arguments of the calls
SkillDicts ==
  [gathering : {Absent, 40, 90}, crafting : {Absent, 20, 45, 61, 62, 85},
   trading : {Absent, 30}]
Inventories ==
  {[shape |-> "dict", wood |-> Absent, ore |-> Absent, axe |-> Absent],
   [shape |-> "dict", wood |-> 5, ore |-> Absent, axe |-> Absent],
   [shape |-> "dict", wood |-> 0, ore |-> Absent, axe |-> Absent],
   [shape |-> "dict", wood |-> Absent, ore |-> 1, axe |-> Absent],
   [shape |-> "list", wood |-> Absent, ore |-> Absent, axe |-> Absent],
   [shape |-> "list", wood |-> 5, ore |-> Absent, axe |-> Absent]}
NpcStates ==
  [skills : SkillDicts, stats : [money : {Absent, 10, 35, 50, 200}],
   inventory : Inventories]
WorldStates ==
  [market_prices : [sword : {Absent, 50}],
   quest_board : {{}, {[type |-> "sell", item |-> Item]}},
   resources : {<<>>, <<[id |-> "tree", type |-> "tree"]>>}]

\* no planner is constructed
NoPlanner ==
  /\ actions = <<>> /\ max_depth = 0 /\ plan_cache = {}
  /\ start_state = EmptyDict /\ goal_state = EmptyDict /\ pc = "off"
  /\ queue = {} /\ visited = {} /\ count = 0 /\ result = <<>> /\ calls = 0
  /\ expanded = 0 /\ found = FALSE /\ prev = <<>> /\ cleared = FALSE
  /\ validated = <<>>

EconInit ==
  /\ npc_state \in NpcStates
  /\ world_state \in WorldStates
  /\ acquisition = [status |-> "none", error |-> "", value |-> <<>>]
  /\ NoPlanner
  /\ NoGoalManager
  /\ NoServer

\* planner.get_acquisition_plan(item, npc_state, world_state)
GetAcquisitionPlan ==
  /\ acquisition.status = "none"
  /\ acquisition' = get_acquisition_plan(Item, npc_state, world_state)
  /\ UNCHANGED <<npc_state, world_state, plannerVars, goalVars, serverVars>>

EconNext == GetAcquisitionPlan

EconSpec == EconInit /\ [][EconNext]_vars

\* ---- what the claims about the strategist speak of ----
CraftingSkill == Get(npc_state.skills, "crafting", 0)
CraftEval == evaluate_craft_path(Item, npc_state, world_state)
WorkEval == evaluate_work_and_buy_path(Item, npc_state, world_state)
Returned == acquisition.status = "returned"
Strategy == acquisition.value[1]
Details == acquisition.value[2]
BothFeasible == Returned /\ CraftEval.feasible /\ WorkEval.feasible

\* C12 as stated: whenever both paths are feasible, get_acquisition_plan returns
\* work_and_buy at crafting skill 20 and craft at crafting skill 85, whatever the
\* gold, the price, the inventory, the other skills and the world snapshot.
C12_SkillFlipsChoice ==
  BothFeasible =>
    /\ CraftingSkill = 20 => Strategy = "work_and_buy"
    /\ CraftingSkill = 85 => Strategy = "craft"

\* C12 amended: whenever both paths are feasible, get_acquisition_plan returns
\* work_and_buy at crafting skill 20; at crafting skill 85 it returns craft
\* exactly when the craft time cost is lower than the work-and-buy time cost,
\* and work_and_buy otherwise (as when the agent's gold covers the price).
C12_SkillChoiceByTime ==
  BothFeasible =>
    /\ CraftingSkill = 20 => Strategy = "work_and_buy"
    /\ CraftingSkill = 85 =>
         (Strategy = "craft" <=> RatLess(CraftEval.time_cost, WorkEval.time_cost))
C12_Witness ==
  /\ BothFeasible /\ CraftingSkill = 85 /\ Strategy = "work_and_buy"
  /\ WorkEval.gold_needed = 0 /\ check_materials(Item, npc_state)

\* C13: whenever both evaluations are feasible and the craft path is marginal
\* (success probability < 0.7, which covers every case with success < 0.5 or
\* expected quality < 0.4), get_acquisition_plan returns work_and_buy with the
\* work-and-buy evaluation, however much slower the work path is.
C13_MarginalCraftBuys ==
  BothFeasible =>
    /\ ( \/ RatLess(CraftEval.success_probability, Rat(1, 2))
         \/ RatLess(CraftEval.expected_quality, Rat(4, 10)) )
         => RatLess(CraftEval.success_probability, Rat(7, 10))
    /\ RatLess(CraftEval.success_probability, Rat(7, 10))
         => (Strategy = "work_and_buy" /\ Details = WorkEval)
C13_Witness ==
  /\ BothFeasible /\ Strategy = "work_and_buy" /\ Details = WorkEval
  /\ RatLess(CraftEval.success_probability, Rat(7, 10))
  /\ ~RatLess(CraftEval.success_probability, Rat(1, 2))
  /\ ~RatLess(CraftEval.expected_quality, Rat(4, 10))
  /\ RatLess(RatPlus(CraftEval.total_cost, CraftEval.total_cost), WorkEval.time_cost)
  /\ ~RatLess(RatDiv(WorkEval.time_cost, RatMax(CraftEval.time_cost, Rat(1, 1))),
              Rat(3, 1))

\* C14: feasibility comes first.  The craft evaluation is infeasible exactly when
\* the agent holds neither wood nor ore and the world has no resources, and then
\* get_acquisition_plan returns work_and_buy with the work evaluation, whatever
\* the skills; when craft is feasible and work-and-buy is not, it returns craft
\* with the craft evaluation; the evaluation returned is always the one of the
\* strategy returned.
C14_FeasibilityFirst ==
  Returned =>
    /\ ~CraftEval.feasible <=>
         ( /\ ~(Get(npc_state.inventory, "wood", 0) > 0)
           /\ ~(Get(npc_state.inventory, "ore", 0) > 0)
           /\ world_state.resources = <<>> )
    /\ ~CraftEval.feasible => (Strategy = "work_and_buy" /\ Details = WorkEval)
    /\ (CraftEval.feasible /\ ~WorkEval.feasible)
         => (Strategy = "craft" /\ Details = CraftEval)
    /\ Strategy \in {"craft", "work_and_buy"}
    /\ Details = IF Strategy = "craft" THEN CraftEval ELSE WorkEval
C14_Witness ==
  /\ Returned /\ ~CraftEval.feasible /\ CraftingSkill = 85
  /\ WorkEval.gold_needed > 0
  /\ Strategy = "work_and_buy" /\ Details = WorkEval

\* ---- the market side of the work-and-buy evaluation ----
Unlisted ==
  /\ Get(world_state.market_prices, Item, Absent) = Absent
  /\ ~\E order \in world_state.quest_board :
        order.type = "sell" /\ order.item = Item

\* C30 as stated: when the item has no market price and no sell order for it
\* is on the quest board, evaluate_work_and_buy_path reports feasible = false,
\* and get_acquisition_plan returns craft whenever the craft path is feasible.
C30_UnlistedInfeasible ==
  (Returned /\ Unlisted) =>
    /\ ~WorkEval.feasible
    /\ CraftEval.feasible => Strategy = "craft"

\* C30 amended: evaluate_work_and_buy_path always reports feasible = true; an
\* item with no market price and no sell order is priced at the default 50 and
\* taken to be on sale, so get_acquisition_plan never returns craft through the
\* work-and-buy-infeasible branch: craft is returned only for a feasible craft
\* path, and an infeasible craft path always gives work_and_buy.
C30_WorkAlwaysFeasible ==
  Returned =>
    /\ WorkEval.feasible
    /\ Unlisted => WorkEval.gold_needed
                     = (IF 50 - Get(npc_state.stats, "money", 0) > 0
                        THEN 50 - Get(npc_state.stats, "money", 0) ELSE 0)
    /\ Strategy = "craft" => CraftEval.feasible
    /\ ~CraftEval.feasible => Strategy = "work_and_buy"
C30_Witness ==
  /\ Returned /\ Unlisted /\ WorkEval.feasible
  /\ CraftEval.feasible /\ Strategy = "work_and_buy" /\ Details = WorkEval
  /\ WorkEval.gold_needed = 40

\* ---- GoalManager (planning/goal_manager.py) ----
NPCs == {"npc_1", "npc_2"}
GoalIds == {"eat_food", "sleep", "impossible_task"}
\* the GoalType each id is created with (test_goal_manager.py)
TypeOf(id) == IF id = "impossible_task" THEN "obtain_item" ELSE "maintain_need"
\* Goal(id, type, priority, conditions=[]); priority is a fixed-point float
Goals ==
  {[id |-> id, type |-> TypeOf(id), priority |-> p] :
     id \in GoalIds, p \in {One \div 2, (8 * One) \div 10, (9 * One) \div 10}}

\* the index of the first goal of highest priority
FirstMax(list) ==
  CHOOSE i \in DOMAIN list :
    /\ \A j \in DOMAIN list : list[j].priority <= list[i].priority
    /\ \A j \in 1..(i - 1) : list[j].priority < list[i].priority
\* list without its i-th element
Without(list, i) == SubSeq(list, 1, i - 1) \o SubSeq(list, i + 1, Len(list))
\* a sort that leaves the list as it is
sort_goals_not(list) == list
\* GoalManager._sort_goals: list.sort(key=priority, reverse=True), which is stable
RECURSIVE sort_goals(_)
sort_goals(list) ==
  IF list = <<>> THEN <<>>
  ELSE <<list[FirstMax(list)]>> \o sort_goals(Without(list, FirstMax(list)))

\* self.goals[npc_id], an empty list for an npc_id the dict does not hold
QueueOf(npc_id) == IF npc_id \in DOMAIN goals THEN goals[npc_id] ELSE <<>>
\* self.goals with self.goals[npc_id] = list
WithQueue(npc_id, list) ==
  [n \in DOMAIN goals \cup {npc_id} |-> IF n = npc_id THEN list ELSE goals[n]]

GoalInit ==
  /\ goals = [n \in {} |-> <<>>]
  /\ active_goals = [n \in {} |-> ""]
  /\ next_goal = <<>>
  /\ NoPlanner
  /\ NoEconomicPlanner
  /\ NoServer

\* an add that replaces the stored goal whatever the priorities
add_goal_replacing ==
  \E npc_id \in NPCs, goal \in Goals :
    LET list == QueueOf(npc_id)
        existing == {i \in DOMAIN list : list[i].id = goal.id}
    IN /\ IF existing # {}
          THEN goals' = WithQueue(npc_id,
                          sort_goals([list EXCEPT ![CHOOSE i \in existing : TRUE] = goal]))
          ELSE goals' = WithQueue(npc_id, sort_goals(Append(list, goal)))
       /\ next_goal' = <<>>
       /\ UNCHANGED <<active_goals, plannerVars, econVars, serverVars>>

\* GoalManager.add_goal
add_goal ==
  \E npc_id \in NPCs, goal \in Goals :
    LET list == QueueOf(npc_id)
        existing == {i \in DOMAIN list : list[i].id = goal.id}
    IN /\ IF existing # {}
          THEN LET existing_idx == CHOOSE i \in existing : \A j \in existing : i <= j
               IN IF goal.priority > list[existing_idx].priority
                  THEN goals' = WithQueue(npc_id,
                                  sort_goals([list EXCEPT ![existing_idx] = goal]))
                  ELSE goals' = WithQueue(npc_id, list)
          ELSE goals' = WithQueue(npc_id, sort_goals(Append(list, goal)))
       /\ next_goal' = <<>>
       /\ UNCHANGED <<active_goals, plannerVars, econVars, serverVars>>

\* GoalManager.get_next_goal: None is <<>>, a goal g is <<g>>
get_next_goal ==
  \E npc_id \in NPCs :
    /\ next_goal' =
         <<npc_id,
           IF npc_id \notin DOMAIN goals \/ goals[npc_id] = <<>> THEN <<>>
           ELSE <<goals[npc_id][1]>>,
           goals>>
    /\ UNCHANGED <<goals, active_goals, plannerVars, econVars, serverVars>>

\* a completion that drops the goals queued behind the completed one as well
AfterCompleteTruncating(npc_id, goal_id) ==
  IF npc_id \in DOMAIN goals
  THEN [goals |->
          WithQueue(npc_id,
            SelectSeq(goals[npc_id],
                      LAMBDA g : \A i \in DOMAIN goals[npc_id] :
                                   goals[npc_id][i].id = goal_id
                                   => goals[npc_id][i].priority < g.priority)),
        active_goals |-> active_goals]
  ELSE [goals |-> goals, active_goals |-> active_goals]

\* the two dicts after GoalManager.complete_goal(npc_id, goal_id)
AfterComplete(npc_id, goal_id) ==
  IF npc_id \in DOMAIN goals
  THEN [goals |-> WithQueue(npc_id,
                    SelectSeq(goals[npc_id], LAMBDA g : g.id # goal_id)),
        active_goals |->
          IF npc_id \in DOMAIN active_goals /\ active_goals[npc_id] = goal_id
          THEN [n \in DOMAIN active_goals \ {npc_id} |-> active_goals[n]]
          ELSE active_goals]
  ELSE [goals |-> goals, active_goals |-> active_goals]

\* GoalManager.complete_goal
complete_goal ==
  \E npc_id \in NPCs, goal_id \in GoalIds :
    /\ goals' = AfterComplete(npc_id, goal_id).goals
    /\ active_goals' = AfterComplete(npc_id, goal_id).active_goals
    /\ next_goal' = <<>>
    /\ UNCHANGED <<plannerVars, econVars, serverVars>>

\* GoalManager.abandon_goal: prints the reason, then complete_goal
abandon_goal ==
  \E npc_id \in NPCs, goal_id \in GoalIds, reason \in {"Too hard"} :
    /\ goals' = AfterComplete(npc_id, goal_id).goals
    /\ active_goals' = AfterComplete(npc_id, goal_id).active_goals
    /\ next_goal' = <<>>
    /\ UNCHANGED <<plannerVars, econVars, serverVars>>

GoalNext == add_goal \/ get_next_goal \/ complete_goal \/ abandon_goal

GoalSpec == GoalInit /\ [][GoalNext]_vars

\* C20: after any sequence of add_goal, complete_goal and abandon_goal calls
\* every NPC's queue is ordered by non-increasing priority; get_next_goal(npc)
\* returns a queued goal of that NPC that no queued goal of that NPC exceeds in
\* priority, or None when the NPC has no queued goal, and removes nothing.
C20_QueueSorted ==
  /\ \A npc_id \in DOMAIN goals :
       \A i, j \in DOMAIN goals[npc_id] :
         i < j => goals[npc_id][i].priority >= goals[npc_id][j].priority
  /\ next_goal # <<>> =>
       LET list == QueueOf(next_goal[1])
           got == next_goal[2]
       IN /\ goals = next_goal[3]
          /\ IF list = <<>> THEN got = <<>>
             ELSE /\ Len(got) = 1
                  /\ \E i \in DOMAIN list : list[i] = got[1]
                  /\ \A i \in DOMAIN list : list[i].priority <= got[1].priority
C20_Witness ==
  /\ next_goal # <<>> /\ Len(QueueOf(next_goal[1])) = 3
  /\ next_goal[2] = <<QueueOf(next_goal[1])[1]>>
  /\ QueueOf(next_goal[1])[1].priority > QueueOf(next_goal[1])[3].priority
  /\ \E npc_id \in NPCs : npc_id \notin DOMAIN goals

\* ---- the service: ActionRegistry and plan_action_enhanced (main.py) ----
\* requests the service receives
MaxRequests == 2
\* the worker threads that run the synchronous endpoint
Workers == {1, 2}
\* max_depth of the planner of plan_action_enhanced (line 364)
EndpointMaxDepth == 15

\* a dict literal given as a set of <<key, value>> pairs
DictOf(pairs) ==
  [k \in Keys |->
     IF \E p \in pairs : p[1] = k THEN (CHOOSE p \in pairs : p[1] = k)[2]
     ELSE NoneVal]

\* action_registry.py, gathering and survival
chop ==
  Action("chop",
         Dict([has_axe |-> T, near_tree |-> T, energy |-> PyNum(One \div 10)]),
         Dict([has_wood |-> PyInt(1), energy |-> PyNum(-(One \div 20))]), 2 * One)
eat ==
  Action("eat", Dict([has_food |-> T]),
         Dict([hunger |-> PyNum(-(One \div 2)), has_food |-> PyInt(-1)]),
         One \div 2)
\* the static catalog, in registration order: the part of it the requests below
\* can make applicable, one operator with a personality modifier and one without
Catalog == <<chop, eat>>
CatalogNames == {Catalog[i].name : i \in DOMAIN Catalog}
\* ActionRegistry._actions after _initialize_actions
Registered == [n \in CatalogNames |-> FindIn(Catalog, n).cost]

\* ActionRegistry.calculate_cost from base_cost = action.cost on; traits are
\* fixed-point floats, Absent for a trait the personality dict does not hold
calculate_cost(action_name, personality, base_cost) ==
  LET lazy == IF action_name \in {"chop", "mine", "farm", "hunt"}
              THEN (base_cost * (One + Get(personality, "laziness", One \div 2)))
                     \div One
              ELSE base_cost
      greedy == IF action_name \in {"sell", "work", "accept_order"}
                THEN (lazy * (10 * One - 3 * Get(personality, "greed", One \div 2)))
                       \div (10 * One)
                ELSE lazy
      social == IF action_name \in {"talk", "socialize", "recruit"}
                THEN (greedy
                      * (10 * One - 2 * Get(personality, "sociability", One \div 2)))
                       \div (10 * One)
                ELSE greedy
  IN IF social < One \div 10 THEN One \div 10 ELSE social

\* expand_actions, part 1: the operators of one resource (lines 417-467)
ResourceActions(r) ==
  LET near == <<"near_" \o r.id, T>> IN
  <<Action("move_to_" \o r.id, EmptyDict, DictOf({near}), One)>>
  \o (IF r.type \in {"bush_berry", "tree_apple", "wild_wheat", "mushroom_red",
                     "mushroom_brown"}
      THEN <<Action("gather_" \o r.type, DictOf({near}),
                    DictOf({<<"has_" \o r.type, PyInt(1)>>}), One)>>
      ELSE IF r.type \in {"tree_oak", "tree_pine"}
      THEN <<Action("chop_" \o r.type, DictOf({near, <<"has_axe", T>>}),
                    Dict([has_wood |-> PyInt(1)]), 2 * One)>>
      ELSE IF r.type \in {"rock_stone", "ore_iron"}
      THEN <<Action("mine_" \o r.type, DictOf({near, <<"has_pickaxe", T>>}),
                    Dict([has_stone |-> PyInt(IF r.type = "rock_stone" THEN 1 ELSE 0),
                          has_ore |-> PyInt(IF r.type = "ore_iron" THEN 1 ELSE 0)]),
                    3 * One)>>
      ELSE <<>>)
RECURSIVE ResourcesActions(_)
ResourcesActions(resources) ==
  IF resources = <<>> THEN <<>>
  ELSE ResourceActions(Head(resources)) \o ResourcesActions(Tail(resources))
\* expand_actions, part 2 (lines 469-489)
food_items ==
  <<"bush_berry", "tree_apple", "bread", "mushroom_red", "mushroom_brown",
    "meat_cooked">>
EatActions ==
  [i \in DOMAIN food_items |->
     Action("eat_" \o food_items[i], DictOf({<<"has_" \o food_items[i], T>>}),
            Dict([hunger |-> PyNum(-((3 * One) \div 10))]), One \div 2)]
\* expand_actions, part 3 (lines 491-501): market_prices holds Item or nothing
BuyActions(market_prices) ==
  IF market_prices[Item] = Absent THEN <<>>
  ELSE <<Action("buy_" \o Item, Dict([gold |-> PyInt(market_prices[Item])]),
                DictOf({<<"has_" \o Item, PyInt(1)>>,
                        <<"gold", PyInt(-market_prices[Item])>>}), One)>>
\* ActionRegistry.expand_actions
expand_actions(npc, world) ==
  ResourcesActions(world.resources) \o EatActions
  \o BuyActions(world.market_prices) \o <<work_labor>>

\* static_actions as the planner reads them: the registry's Action objects, with
\* the costs they hold now
StaticActions(reg) ==
  [i \in DOMAIN Catalog |-> [Catalog[i] EXCEPT !.cost = reg[Catalog[i].name]]]
\* all_actions (line 305)
AllActions(req, reg) == StaticActions(reg) \o expand_actions(req.npc, req.world)

\* the inventory items a request holds
ItemTypes == {"wood", "ore", "axe"}
Held(npc) == {t \in ItemTypes : npc.inventory[t] # Absent}
SkillNames == {"gathering", "crafting", "trading"}
\* lines 354-357 on a dict inventory that holds something: iterating it yields
\* its keys, and str has no attribute 'get'
start_state_raises(npc) == npc.inventory.shape = "dict" /\ Held(npc) # {}
\* start_state (lines 344-361); the requests give no position, needs or health
start_state_of(npc) ==
  DictOf({<<"pos_x", PyInt(0)>>, <<"pos_y", PyInt(0)>>, <<"energy", PyNum(One)>>,
          <<"hunger", PyNum(0)>>, <<"health", PyInt(100)>>,
          <<"gold", PyInt(Get(npc.stats, "money", 0))>>}
         \cup {<<"has_" \o t, PyInt(npc.inventory[t])>> : t \in Held(npc)}
         \cup {<<"skill_" \o n, PyInt(npc.skills[n])>> :
                 n \in {x \in SkillNames : npc.skills[x] # Absent}})
\* goal_state (lines 315-341)
goal_state_of(goal, strategy) ==
  IF goal.type = "obtain_item"
  THEN IF strategy = "work_and_buy" THEN DictOf({<<"has_" \o goal.item, T>>})
       ELSE DictOf({<<"has_" \o goal.item, T>>})
  ELSE DictOf(goal.conditions)
\* strategy after line 323, for a request the strategist answers; a request of
\* another goal type never binds it
strategy_of(req) ==
  IF req.goal.type = "obtain_item" /\ ~check_materials_raises(req.npc)
  THEN get_acquisition_plan(req.goal.item, req.npc, req.world).value[1]
  ELSE "None"

\* an emptiness test that tells the empty plan of a goal that holds already
\* from no plan
not_plan_unless_found(searched) == searched.plan = <<>> /\ ~searched.found
\* `if not plan` (line 367) on what planner.plan returned
not_plan(searched) == searched.plan = <<>>

\* the except branch (lines 382-408)
ErrorResponse(error) ==
  [success |-> FALSE, plan |-> <<>>, valid |-> FALSE, total_cost |-> 0,
   economic_strategy |-> "None", error |-> error]
\* plan_action_enhanced from line 314 to its return, with the registry's costs
\* as they are while the planner runs
Respond(req, reg) ==
  LET obtain == req.goal.type = "obtain_item"
      acq == get_acquisition_plan(req.goal.item, req.npc, req.world)
      all_actions == AllActions(req, reg)
      start == start_state_of(req.npc)
      goal == goal_state_of(req.goal, strategy_of(req))
      found_plan == plan_of(all_actions, EndpointMaxDepth, start, goal)
  IN IF obtain /\ acq.status = "raised"
     THEN ErrorResponse("'list' object has no attribute 'get'")
     ELSE IF start_state_raises(req.npc)
     THEN ErrorResponse("'str' object has no attribute 'get'")
     ELSE IF found_plan.status = "raised"
     THEN ErrorResponse("'<' not supported between instances of 'dict' and 'dict'")
     ELSE IF not_plan(found_plan)
     THEN ErrorResponse("No plan found to achieve goal")
     ELSE [success |-> TRUE, plan |-> found_plan.plan,
           valid |-> ValidateOver(all_actions, found_plan.plan, 1, start, goal),
           total_cost |-> get_plan_cost(all_actions, found_plan.plan),
           economic_strategy |-> strategy_of(req),
           error |-> ""]

\* the try block raised: the response is the except branch's, which alone
\* carries str(e)
Raised(response) ==
  ~response.success /\ response.error # "No plan found to achieve goal"
\* the values of GoalType (planning/types.py)
GoalTypes ==
  {"maintain_need", "obtain_item", "reach_skill", "accumulate_wealth",
   "build_structure", "complete_order", "socialize", "learn"}
\* PlanningDebugger.metrics after __init__
NoPlans == [total_plans |-> 0, successful_plans |-> 0, failed_plans |-> 0]
\* PlanningDebugger.record_plan: the counters
record_plan(m, success) ==
  [m EXCEPT !.total_plans = @ + 1,
            !.successful_plans = IF success THEN @ + 1 ELSE @,
            !.failed_plans = IF success THEN @ ELSE @ + 1]
\* the debugger's counters after the request: the try block returns at lines
\* 368 and 374 without recording; the except branch records a failure, unless
\* GoalType(...) rejects the goal's type, which it swallows (lines 389-406)
MetricsAfter(req, response, m) ==
  IF Raised(response) /\ req.goal.type \in GoalTypes
  THEN record_plan(m, FALSE)
  ELSE m

\* the request bodies: personalities, NPCs, worlds and goals
NoSkills == [gathering |-> Absent, crafting |-> Absent, trading |-> Absent]
ListOf(wood, axe) == [shape |-> "list", wood |-> wood, ore |-> Absent, axe |-> axe]
EmptyInventory == [shape |-> "dict", wood |-> Absent, ore |-> Absent, axe |-> Absent]
Personality(laziness) ==
  [laziness |-> laziness, greed |-> Absent, sociability |-> Absent]
Market(resources) ==
  [market_prices |-> [sword |-> 50], quest_board |-> {}, resources |-> resources]
Wilds(resources) ==
  [market_prices |-> [sword |-> Absent], quest_board |-> {},
   resources |-> resources]
OneTree == <<[id |-> "tree", type |-> "tree"]>>
TwoBushes ==
  <<[id |-> "bush_1", type |-> "bush_berry"], [id |-> "bush_2", type |-> "bush_berry"]>>
SwordRequests ==
  {[npc |-> [skills |-> [NoSkills EXCEPT !.crafting = c],
             stats |-> [money |-> 40], inventory |-> inv,
             personality |-> Personality(Absent)],
    world |-> Market(OneTree),
    goal |-> [type |-> "obtain_item", item |-> Item, conditions |-> {}]] :
     c \in {20, 85}, inv \in {ListOf(5, Absent), EmptyInventory}}
WoodRequests ==
  {[npc |-> [skills |-> NoSkills, stats |-> [money |-> Absent],
             inventory |-> ListOf(Absent, 1), personality |-> Personality(l)],
    world |-> Wilds(OneTree),
    goal |-> [type |-> "reach", item |-> "",
              conditions |-> {<<"has_wood", PyInt(1)>>}]] :
     l \in {Absent, 0, One}}
BerryRequests ==
  {[npc |-> [skills |-> NoSkills, stats |-> [money |-> Absent],
             inventory |-> ListOf(Absent, Absent),
             personality |-> Personality(Absent)],
    world |-> Wilds(TwoBushes),
    goal |-> [type |-> "reach", item |-> "",
              conditions |-> {<<"has_bush_berry", PyInt(1)>>}]]}
\* a skilled smith short of gold and without materials
SmithRequests ==
  {[npc |-> [skills |-> [NoSkills EXCEPT !.crafting = 85],
             stats |-> [money |-> 35], inventory |-> EmptyInventory,
             personality |-> Personality(Absent)],
    world |-> Market(OneTree),
    goal |-> [type |-> "obtain_item", item |-> Item, conditions |-> {}]]}
ObtainRequests == SwordRequests \cup SmithRequests
\* wood wanted by an agent that holds wood
StockedRequests ==
  {[npc |-> [skills |-> NoSkills, stats |-> [money |-> Absent],
             inventory |-> ListOf(5, Absent), personality |-> Personality(Absent)],
    world |-> Wilds(OneTree),
    goal |-> [type |-> "reach", item |-> "",
              conditions |-> {<<"has_wood", PyInt(1)>>}]]}
\* wood wanted where there is neither tree nor axe
BarrenRequests ==
  {[npc |-> [skills |-> NoSkills, stats |-> [money |-> Absent],
             inventory |-> ListOf(Absent, Absent),
             personality |-> Personality(Absent)],
    world |-> Wilds(<<>>),
    goal |-> [type |-> "reach", item |-> "",
              conditions |-> {<<"has_wood", PyInt(1)>>}]]}
Requests ==
  ObtainRequests \cup WoodRequests \cup BerryRequests \cup StockedRequests
  \cup BarrenRequests

NoRequest == CHOOSE r \in Requests : TRUE
NoResponse == ErrorResponse("")
Idle ==
  [pc |-> "idle", req |-> NoRequest, i |-> 0, base_cost |-> 0,
   response |-> NoResponse]

\* the process after import: the registry singleton holds the catalog, no
\* request has arrived
ServerInit ==
  /\ registry = Registered
  /\ served = 0
  /\ metrics = NoPlans
  /\ workers = [w \in Workers |-> Idle]
  /\ NoPlanner
  /\ NoEconomicPlanner
  /\ NoGoalManager

\* a worker thread takes a request and enters the cost loop (lines 277-307)
Receive(w) ==
  /\ workers[w].pc \in {"idle", "done"}
  /\ served < MaxRequests
  /\ \E req \in Requests :
       workers' = [workers EXCEPT ![w] =
                     [pc |-> "read", req |-> req, i |-> 1, base_cost |-> 0,
                      response |-> NoResponse]]
  /\ served' = served + 1
  /\ UNCHANGED <<registry, metrics, plannerVars, econVars, goalVars>>

\* calculate_cost reads action.cost of the registry's object (line 389)
CostRead(w) ==
  /\ workers[w].pc = "read"
  /\ workers' = [workers EXCEPT ![w].pc = "write",
                                ![w].base_cost = registry[Catalog[workers[w].i].name]]
  /\ UNCHANGED <<registry, served, metrics, plannerVars, econVars, goalVars>>

\* action.cost = ... (line 312) stores the result in the registry's object;
\* the loop then goes to the next operator or ends
CostWrite(w) ==
  LET me == workers[w]
      name == Catalog[me.i].name
  IN /\ me.pc = "write"
     /\ registry' = [registry EXCEPT ![name] =
                       calculate_cost(name, me.req.npc.personality, me.base_cost)]
     /\ workers' = [workers EXCEPT
                      ![w].pc = IF me.i = Len(Catalog) THEN "plan" ELSE "read",
                      ![w].i = me.i + 1]
     /\ UNCHANGED <<served, metrics, plannerVars, econVars, goalVars>>

\* lines 314-408: strategist, goal and start state, search, validation, cost,
\* the debugger record of the except branch and the response, on the costs the
\* registry holds at that moment. (The search
\* reads the costs as it goes; a write landing inside it only adds behaviours.)
PlanStep(w) ==
  /\ workers[w].pc = "plan"
  /\ workers' = [workers EXCEPT ![w].pc = "done",
                                ![w].response = Respond(workers[w].req, registry)]
  /\ metrics' = MetricsAfter(workers[w].req, workers'[w].response, metrics)
  /\ UNCHANGED <<registry, served, plannerVars, econVars, goalVars>>

ServerNext == \E w \in Workers : Receive(w) \/ CostRead(w) \/ CostWrite(w) \/ PlanStep(w)

ServerSpec == ServerInit /\ [][ServerNext]_vars

\* ---- the service: what the claims speak of ----
Finished(w) == workers[w].pc = "done"
Quiet == \A w \in Workers : workers[w].pc \in {"idle", "done"}
\* the catalog costs adjusted by one request's personality alone
OwnCosts(req) ==
  [n \in CatalogNames |-> calculate_cost(n, req.npc.personality, Registered[n])]
\* what the request would be answered on those costs
OwnResponse(req) == Respond(req, OwnCosts(req))
\* the operator set of the request worker w holds
Assembled(w) == AllActions(workers[w].req, registry)
\* a plan exists for the request: the search finds one from its start state
PlanExists(req) ==
  plan_of(AllActions(req, OwnCosts(req)), EndpointMaxDepth,
          start_state_of(req.npc),
          goal_state_of(req.goal, strategy_of(req))).plan # <<>>

\* C15: whenever no request is in progress, after any sequence of requests with
\* any personalities, every operator of the static catalog has the cost it was
\* registered with.
C15_CatalogCostsKept == Quiet => registry = Registered

\* C16: when two requests with different personalities are in the service
\* together, the plan and total_cost a request is answered with are the ones
\* computed from the registered costs adjusted by its own personality only.
C16_OwnPersonalityOnly ==
  \A w, u \in Workers :
    /\ w # u
    /\ Finished(w)
    /\ workers[u].pc # "idle"
    /\ workers[u].req.npc.personality # workers[w].req.npc.personality
    => /\ workers[w].response.plan = OwnResponse(workers[w].req).plan
       /\ workers[w].response.total_cost = OwnResponse(workers[w].req).total_cost

\* C17: the operator set assembled for a request (static catalog plus
\* expand_actions output) holds no two operators of one name, also when two
\* resources have the same type.
C17_AssembledNamesUnique ==
  \A w \in Workers :
    workers[w].pc # "idle"
    => \A i, j \in DOMAIN Assembled(w) :
         Assembled(w)[i].name = Assembled(w)[j].name => i = j

\* C19: an obtain_item request whose inventory is a list of {type, quantity}
\* records, and for which a plan exists, is answered success = true with
\* economic_strategy the strategist's choice: work_and_buy at crafting skill
\* 20, craft at crafting skill 85.
C19_ListInventoryObtains ==
  \A w \in Workers :
    /\ Finished(w)
    /\ workers[w].req.goal.type = "obtain_item"
    /\ workers[w].req.npc.inventory.shape = "list"
    /\ PlanExists(workers[w].req)
    => /\ workers[w].response.success
       /\ workers[w].req.npc.skills.crafting = 20
          => workers[w].response.economic_strategy = "work_and_buy"
       /\ workers[w].req.npc.skills.crafting = 85
          => workers[w].response.economic_strategy = "craft"

\* ---- the goal queues: what the claims speak of ----
IdsOf(list) == {list[i].id : i \in DOMAIN list}
GoalsOf(list) == {list[i] : i \in DOMAIN list}
\* the position of the goal with this id in a list that holds it once
IndexOf(list, id) == CHOOSE i \in DOMAIN list : list[i].id = id

\* C21: no queue ever holds two goals of one id; an add_goal step leaves each
\* queue as it was, or replaces one stored goal by a goal of the same id and
\* strictly higher priority (same length), or puts in one goal of an id that
\* was not queued.
C21_NoDuplicateIds ==
  /\ [](\A n \in DOMAIN goals : Cardinality(IdsOf(goals[n])) = Len(goals[n]))
  /\ [][add_goal =>
          \A n \in DOMAIN goals' :
            LET old == QueueOf(n)
                new == goals'[n]
            IN \/ new = old
               \/ /\ Len(new) = Len(old)
                  /\ \E g \in GoalsOf(new), h \in GoalsOf(old) :
                       /\ g.id = h.id
                       /\ g.priority > h.priority
                       /\ GoalsOf(new) \ {g} = GoalsOf(old) \ {h}
               \/ /\ Len(new) = Len(old) + 1
                  /\ \E g \in GoalsOf(new) :
                       /\ g.id \notin IdsOf(old)
                       /\ GoalsOf(new) \ {g} = GoalsOf(old)]_vars
\* a queue that holds every id, one of them below the highest priority: each
\* further add_goal to it meets a queued id
C21_Witness ==
  \E n \in DOMAIN goals :
    /\ IdsOf(goals[n]) = GoalIds
    /\ goals[n][1].priority = (9 * One) \div 10
    /\ goals[n][3].priority = One \div 2

\* C22: a complete_goal or abandon_goal step removes from one NPC's queue
\* exactly the goal of the given id, keeps the other goals in their order,
\* leaves every other NPC's queue as it is, and changes nothing for an NPC
\* without a queue or an id that is not queued.
C22_RemovesExactlyOne ==
  [][(complete_goal \/ abandon_goal) =>
       /\ DOMAIN goals' = DOMAIN goals
       /\ \E npc_id \in NPCs, goal_id \in GoalIds :
            /\ \A n \in DOMAIN goals \ {npc_id} : goals'[n] = goals[n]
            /\ npc_id \in DOMAIN goals =>
                 LET old == goals[npc_id]
                     new == goals'[npc_id]
                 IN /\ GoalsOf(new) = {g \in GoalsOf(old) : g.id # goal_id}
                    /\ Len(new) = Cardinality(GoalsOf(new))
                    /\ \A i, j \in DOMAIN new :
                         i < j => IndexOf(old, new[i].id) < IndexOf(old, new[j].id)
                    /\ goal_id \notin IdsOf(old) => new = old]_vars
\* a removal has emptied one NPC's queue (add_goal leaves none empty) while the
\* other NPC holds two goals
C22_Witness ==
  \E n, m \in DOMAIN goals : goals[n] = <<>> /\ Len(goals[m]) = 2

\* C23: two answered item-acquisition requests for the same item, one resolved
\* as craft and one as work_and_buy, were planned against different goal
\* states.
C23_StrategySetsGoal ==
  \A w, u \in Workers :
    /\ Finished(w) /\ Finished(u)
    /\ workers[w].req.goal.type = "obtain_item"
    /\ workers[u].req.goal.type = "obtain_item"
    /\ workers[w].req.goal.item = workers[u].req.goal.item
    /\ workers[w].response.economic_strategy = "craft"
    /\ workers[u].response.economic_strategy = "work_and_buy"
    => goal_state_of(workers[w].req.goal, "craft")
         # goal_state_of(workers[u].req.goal, "work_and_buy")

\* the canonical snapshots of the states reachable within max_depth steps
ReachableKeys == {ItemsKey(s) : s \in ReachWithin({start_state}, max_depth)}

\* C24: within one search every expansion is of a state whose snapshot was not
\* in the visited set, so the expansions of the search number exactly the
\* visited snapshots, and at most the distinct states reachable within
\* max_depth steps.
C24_NoReexpansion ==
  /\ pc = "search" => expanded = Cardinality(visited)
  /\ visited \subseteq ReachableKeys
  /\ expanded <= Cardinality(ReachableKeys)
\* the entry about to be popped holds a state that was expanded before: it is
\* not a goal state, is below the depth limit and its snapshot is visited
C24_Witness ==
  /\ pc = "search" /\ queue # {} /\ ~HeapRaises(queue)
  /\ expanded >= 2
  /\ LET e == HeapMin(queue) IN
       /\ ~check_goal(e.state, goal_state)
       /\ ~DepthLimit(e.depth, max_depth)
       /\ InVisited(ItemsKey(e.state), visited)

\* ---- the plan cache over several calls: what the claims speak of ----
\* the search of the call just made reached the goal
SearchReachedGoal(start, goal) == plan_of(actions, max_depth, start, goal).found

\* C25: every cache entry maps a (start, goal) pair to the list the search for
\* that pair returns at its goal check, one entry per pair; a step either
\* empties the cache (clear_cache) or keeps every entry as it is; a plan call
\* adds the pair and the list it returned exactly when the pair was not cached
\* and its search reached the goal, and adds nothing otherwise.
C25_CacheContents ==
  /\ [](/\ \A c, d \in plan_cache : c.key = d.key => c = d
        /\ \A c \in plan_cache :
             \E start \in CacheWorld.starts, goal \in CacheWorld.goals :
               /\ c.key = CacheKey(start, goal)
               /\ SearchReachedGoal(start, goal)
               /\ c.plan = plan_of(actions, max_depth, start, goal).plan)
  /\ [][/\ plan_cache' = {} \/ plan_cache \subseteq plan_cache'
        /\ plan_cache' = {} /\ plan_cache # {} => cleared'
        /\ calls' # calls =>
             LET key == CacheKey(start_state', goal_state') IN
             IF ~InCache(plan_cache, key) /\ SearchReachedGoal(start_state', goal_state')
             THEN plan_cache' = plan_cache \cup {[key |-> key, plan |-> result']}
             ELSE plan_cache' = plan_cache]_vars
\* two pairs are cached, and the call just made exhausted its frontier and
\* left them alone
C25_Witness ==
  /\ Cardinality(plan_cache) = 2
  /\ pc = "returned" /\ ~found
  /\ ~InCache(plan_cache, CacheKey(start_state, goal_state))
  /\ \E c \in plan_cache : Len(c.plan) >= 2

\* the search plan_action_enhanced runs for a request, on the costs it holds
SearchFor(req, reg) ==
  plan_of(AllActions(req, reg), EndpointMaxDepth, start_state_of(req.npc),
          goal_state_of(req.goal, strategy_of(req)))
NoPlanFound == ErrorResponse("No plan found to achieve goal")

\* C26: for a request whose start state already satisfies its goal, plan
\* returns the empty list at its goal check (where it is cached), and the
\* request is answered success = false, "No plan found to achieve goal": the
\* answer a request with an unreachable goal gets.
C26_SatisfiedReportedAsNoPlan ==
  \A w \in Workers :
    Finished(w) /\ workers[w].req.goal.type # "obtain_item" =>
      LET req == workers[w].req
          searched == SearchFor(req, registry)
      IN /\ check_goal(start_state_of(req.npc), goal_state_of(req.goal, "None"))
            => /\ searched.found /\ searched.plan = <<>>
               /\ workers[w].response = NoPlanFound
         /\ ~searched.found => workers[w].response = NoPlanFound
         /\ workers[w].response = NoPlanFound => searched.plan = <<>>
\* both have been answered: a request whose goal held from the start and a
\* request whose goal no plan reaches
C26_Witness ==
  \E w, u \in Workers :
    /\ Finished(w) /\ workers[w].req \in StockedRequests
    /\ Finished(u) /\ workers[u].req \in BarrenRequests
    /\ workers[w].response = workers[u].response
    /\ SearchFor(workers[w].req, registry).found
    /\ ~SearchFor(workers[u].req, registry).found

\* the (state, summed cost) pairs some sequence of at most d valid operator
\* applications leads to
RECURSIVE CostedWithin(_, _)
CostedWithin(S, d) ==
  IF d = 0 THEN S
  ELSE CostedWithin(
         S \cup {<<apply(actions[x[1]], x[2][1]), x[2][2] + actions[x[1]].cost>> :
                   x \in {y \in (DOMAIN actions) \X S :
                            is_valid(actions[y[1]], y[2][1])}},
         d - 1)
\* a plan() call has returned, from the search or from the cache
Called == pc = "returned" /\ calls >= 1

\* C27: for a start state that does not satisfy the goal, plan returns a
\* non-empty plan exactly when some sequence of at most max_depth valid
\* operator applications leads to a goal-satisfying state.
C27_CompleteWithinDepth ==
  Called /\ ~check_goal(start_state, goal_state)
    => (result # <<>> <=> GoalReachable)

\* C28: no valid operator sequence of at most max_depth steps that reaches a
\* goal-satisfying state has a lower summed cost than the plan returned.
C28_ReturnsOptimal ==
  Called /\ result # <<>>
    => \A x \in CostedWithin({<<start_state, 0>>}, max_depth) :
         check_goal(x[1], goal_state) => get_plan_cost(actions, result) <= x[2]

\* C29: every request that has returned has recorded exactly one entry in the
\* planning debugger: once no request is in progress, total_plans equals the
\* number of requests served and equals successful_plans + failed_plans.
C29_EveryRequestRecorded ==
  /\ metrics.total_plans = metrics.successful_plans + metrics.failed_plans
  /\ Quiet => metrics.total_plans = served

====
